---- MODULE Spec2Model ----
(***************************************************************************)
(* A model of src/app.js: the base decoder (decodeFromBase), the Lagrange  *)
(* interpolation (performLagrangeInterpolation), the subset enumeration    *)
(* (generateCombinations) and the majority vote over all subsets           *)
(* (findSecretWithMinimumRoots).                                           *)
(*                                                                         *)
(* JavaScript arrays are functions over 0..n-1, as in the source; lists    *)
(* that the source only iterates (allRoots, a combination, the list of     *)
(* combinations, the Map's entries) are sequences.  Strings are sequences  *)
(* of UTF-16 code units (48 = '0', 65 = 'A', 97 = 'a', 45 = '-').          *)
(***************************************************************************)
EXTENDS Integers, Sequences, FiniteSets, TLC

\* Bounds of the model.
MaxN == 3
MaxY == 1
PolyN == 4
MaxCoef == 1
MaxDelta == 1
MaxLen == 2

VARIABLES
    \* findSecretWithMinimumRoots
    allRoots,               \* the list of points {x, y}
    k,                      \* the number of points per combination
    pc,                     \* "idle", "start", "forEach", "returned", "threw"
    allCombinations,        \* generateCombinations(allRoots, k)
    index,                  \* forEach's index: combinations handled so far
    secretFrequencyMap,     \* Map's entries <<key, count>>, in insertion order
    polynomialCoefficients, \* what the last interpolation gave
    outcome,                \* the object returned, or the error thrown
    \* ghost input of the polynomial runs: the polynomial the points were drawn from
    polynomial,
    \* decodeFromBase
    value,                  \* the digit string
    base,                   \* the base, as the JSON file gives it (a string)
    dpc,                    \* "idle", "start", "loop", "returned", "threw"
    digits,                 \* value.toLowerCase().split('')
    digitIndex,             \* the loop's i
    result,                 \* the loop's result, then the value returned
    thrown                  \* the error thrown, "" when none

recoveryVars == <<allRoots, k, pc, allCombinations, index, secretFrequencyMap,
                  polynomialCoefficients, outcome, polynomial>>
decoderVars == <<value, base, dpc, digits, digitIndex, result, thrown>>
vars == <<recoveryVars, decoderVars>>

----------------------------------------------------------------------------
\* BigInt arithmetic and conversions

Abs(a) == IF a < 0 THEN -a ELSE a

\* BigInt division: the quotient truncated towards zero (b # 0).
BigIntDiv(a, b) ==
    LET q == Abs(a) \div Abs(b)
    IN  IF (a < 0) = (b < 0) THEN q ELSE -q

RECURSIVE DecimalDigits(_)
DecimalDigits(v) ==
    IF v < 10 THEN <<48 + v>>
    ELSE Append(DecimalDigits(v \div 10), 48 + (v % 10))

\* constantTerm.toString(): the decimal digits, '-' first when negative.
BigIntToString(v) ==
    IF v < 0 THEN <<45>> \o DecimalDigits(-v) ELSE DecimalDigits(v)

RECURSIVE DecimalValue(_, _)
DecimalValue(s, acc) ==
    IF s = <<>> THEN acc
    ELSE DecimalValue(Tail(s), acc * 10 + (Head(s) - 48))

\* BigInt(mostCommonSecret): the value of a decimal string with an optional '-'.
StringToBigInt(s) ==
    IF s # <<>> /\ Head(s) = 45 THEN -DecimalValue(Tail(s), 0)
    ELSE DecimalValue(s, 0)

----------------------------------------------------------------------------
\* performLagrangeInterpolation

ZeroArray(n) == [c \in 0..(n - 1) |-> 0]

\* The loop that multiplies the basis polynomial by (x - xj): for each c in
\* 0..n-2 it assigns tempPolynomial[c+1], then tempPolynomial[c].
RECURSIVE MultiplyByLinearFactor(_, _, _, _, _)
MultiplyByLinearFactor(tempPolynomial, basisPolynomial, xj, c, numberOfPoints) ==
    IF c >= numberOfPoints - 1 THEN tempPolynomial
    ELSE MultiplyByLinearFactor(
            [[tempPolynomial EXCEPT ![c + 1] = basisPolynomial[c]]
                EXCEPT ![c] = basisPolynomial[c] * (-xj)],
            basisPolynomial, xj, c + 1, numberOfPoints)

\* The loop over j # i: the basis polynomial and its denominator.
RECURSIVE BuildBasis(_, _, _, _, _)
BuildBasis(dataPoints, pi, j, basisPolynomial, denominator) ==
    LET numberOfPoints == Len(dataPoints)
    IN  IF j >= numberOfPoints
        THEN [basisPolynomial |-> basisPolynomial, denominator |-> denominator]
        ELSE IF pi # j
        THEN LET xj == dataPoints[j + 1].x
             IN  BuildBasis(dataPoints, pi, j + 1,
                    MultiplyByLinearFactor(ZeroArray(numberOfPoints),
                        basisPolynomial, xj, 0, numberOfPoints),
                    denominator * (dataPoints[pi + 1].x - xj))
        ELSE BuildBasis(dataPoints, pi, j + 1, basisPolynomial, denominator)

\* One basis polynomial's contribution to one coefficient: each term is
\* divided by the denominator on its own.
Contribution(yi, basisCoefficient, denominator) ==
    BigIntDiv(yi * basisCoefficient, denominator)

\* The loop over the points.  The division throws a RangeError when the
\* denominator is zero.
RECURSIVE InterpolateFrom(_, _, _)
InterpolateFrom(dataPoints, pi, coefficients) ==
    LET numberOfPoints == Len(dataPoints)
    IN  IF pi >= numberOfPoints
        THEN [ok |-> TRUE, coefficients |-> coefficients, error |-> ""]
        ELSE LET b == BuildBasis(dataPoints, pi, 0,
                        [ZeroArray(numberOfPoints) EXCEPT ![0] = 1], 1)
                 yi == dataPoints[pi + 1].y
             IN  IF b.denominator = 0
                 THEN [ok |-> FALSE, coefficients |-> ZeroArray(0),
                       error |-> "RangeError"]
                 ELSE InterpolateFrom(dataPoints, pi + 1,
                        [c \in 0..(numberOfPoints - 1) |->
                            coefficients[c]
                            + Contribution(yi, b.basisPolynomial[c], b.denominator)])

performLagrangeInterpolation(dataPoints) ==
    InterpolateFrom(dataPoints, 0, ZeroArray(Len(dataPoints)))

----------------------------------------------------------------------------
\* generateCombinations

RECURSIVE backtrack(_, _, _, _, _)
RECURSIVE backtrackFor(_, _, _, _, _, _)

\* backtrack(startIndex, currentCombination); acc is allCombinations so far.
backtrack(elements, combinationSize, startIndex, currentCombination, acc) ==
    IF Len(currentCombination) = combinationSize
    THEN Append(acc, currentCombination)
    ELSE backtrackFor(elements, combinationSize, startIndex, startIndex,
            currentCombination, acc)

\* A loop body that calls backtrack(startIndex + 1, ...).
NextStartIndexFromStart(startIndex, ei) == startIndex + 1

\* Which backtrack the loop's body calls for element ei: backtrack(i + 1, ...).
NextStartIndex(startIndex, ei) == ei + 1

\* The for loop of backtrack(startIndex, ...), from ei on: push, recurse, pop.
backtrackFor(elements, combinationSize, startIndex, ei, currentCombination, acc) ==
    IF ei >= Len(elements) THEN acc
    ELSE backtrackFor(elements, combinationSize, startIndex, ei + 1, currentCombination,
            backtrack(elements, combinationSize, NextStartIndex(startIndex, ei),
                Append(currentCombination, elements[ei + 1]), acc))

generateCombinations(elements, combinationSize) ==
    backtrack(elements, combinationSize, 0, <<>>, <<>>)

----------------------------------------------------------------------------
\* findSecretWithMinimumRoots

MapHas(map, key) == \E e \in 1..Len(map) : map[e][1] = key

\* A tally that starts a new key at 1 before the increment.
MapGetOrOne(map, key) ==
    IF MapHas(map, key)
    THEN map[CHOOSE e \in 1..Len(map) : map[e][1] = key][2]
    ELSE 1

\* secretFrequencyMap.get(key) || 0
MapGetOrZero(map, key) ==
    IF MapHas(map, key)
    THEN map[CHOOSE e \in 1..Len(map) : map[e][1] = key][2]
    ELSE 0

\* secretFrequencyMap.set(key, count): a key keeps its place, a new one goes last.
MapSet(map, key, count) ==
    IF MapHas(map, key)
    THEN LET e == CHOOSE e \in 1..Len(map) : map[e][1] = key
         IN  [map EXCEPT ![e] = <<key, count>>]
    ELSE Append(map, <<key, count>>)

\* What the try block does with one combination: the interpolation, then
\* polynomialCoefficients[0].toString(), a TypeError when there is no entry 0.
Interpolated(rootCombination) ==
    LET r == performLagrangeInterpolation(rootCombination)
    IN  IF r.ok /\ Len(rootCombination) = 0
        THEN [ok |-> FALSE, coefficients |-> r.coefficients, error |-> "TypeError"]
        ELSE r

\* The callback's effect on the map: a combination that throws leaves it alone.
Tally(map, rootCombination) ==
    LET r == Interpolated(rootCombination)
    IN  IF ~r.ok THEN map
        ELSE LET secretKey == BigIntToString(r.coefficients[0])
             IN  MapSet(map, secretKey, MapGetOrZero(map, secretKey) + 1)

\* A reduce callback that lets an equal count replace the entry kept.
MoreFrequentOrEqual(mostFrequent, current) ==
    IF current[2] >= mostFrequent[2] THEN current ELSE mostFrequent

\* A reduce callback that keeps the entry it is handed: the last one wins.
MoreFrequentLast(mostFrequent, current) == current

\* The reduce callback: which of the two entries is kept.
MoreFrequent(mostFrequent, current) ==
    IF current[2] > mostFrequent[2] THEN current ELSE mostFrequent

\* [...entries].reduce(callback) from entry e on: no initial value, so the
\* first entry starts as mostFrequent.
RECURSIVE ReduceEntries(_, _, _)
ReduceEntries(entries, e, mostFrequent) ==
    IF e > Len(entries) THEN mostFrequent
    ELSE ReduceEntries(entries, e + 1, MoreFrequent(mostFrequent, entries[e]))

NoResult ==
    [kind |-> "none", message |-> "", secret |-> 0, frequency |-> 0,
     totalCombinations |-> 0]

\* What follows the forEach: the throw on an empty map, or the object returned.
Conclude(map, combinations) ==
    IF Len(map) = 0
    THEN [NoResult EXCEPT !.kind = "threw",
            !.message = "No valid secrets found from any combination"]
    ELSE LET mostCommonSecret == ReduceEntries(map, 2, map[1])[1]
         IN  [kind |-> "returned", message |-> "",
              secret |-> StringToBigInt(mostCommonSecret),
              frequency |-> MapGetOrZero(map, mostCommonSecret),
              totalCombinations |-> Len(combinations)]

RECURSIVE TallyAll(_, _, _)
TallyAll(map, combinations, e) ==
    IF e > Len(combinations) THEN map
    ELSE TallyAll(Tally(map, combinations[e]), combinations, e + 1)

\* The function as a whole, for a comparison of two calls.
findSecretWithMinimumRoots(roots, size) ==
    LET combinations == generateCombinations(roots, size)
    IN  Conclude(TallyAll(<<>>, combinations, 1), combinations)

NoInterpolation == [ok |-> FALSE, coefficients |-> ZeroArray(0), error |-> "none"]

Generate ==
    /\ pc = "start"
    /\ allCombinations' = generateCombinations(allRoots, k)
    /\ pc' = "forEach"
    /\ UNCHANGED <<allRoots, k, index, secretFrequencyMap, polynomialCoefficients,
                   outcome, polynomial, decoderVars>>

\* The forEach callback on a combination whose try block completes.
TallySecret ==
    /\ pc = "forEach"
    /\ index < Len(allCombinations)
    /\ Interpolated(allCombinations[index + 1]).ok
    /\ polynomialCoefficients' = Interpolated(allCombinations[index + 1])
    /\ secretFrequencyMap' = Tally(secretFrequencyMap, allCombinations[index + 1])
    /\ index' = index + 1
    /\ UNCHANGED <<allRoots, k, pc, allCombinations, outcome, polynomial, decoderVars>>

\* A forEach callback without the try: the error ends the recovery.
CatchErrorRethrows ==
    /\ pc = "forEach"
    /\ index < Len(allCombinations)
    /\ ~Interpolated(allCombinations[index + 1]).ok
    /\ polynomialCoefficients' = Interpolated(allCombinations[index + 1])
    /\ outcome' = [NoResult EXCEPT !.kind = "threw",
                    !.message = Interpolated(allCombinations[index + 1]).error]
    /\ pc' = "threw"
    /\ UNCHANGED <<allRoots, k, allCombinations, index, secretFrequencyMap,
                   polynomial, decoderVars>>

\* The forEach callback on a combination whose try block throws.
CatchError ==
    /\ pc = "forEach"
    /\ index < Len(allCombinations)
    /\ ~Interpolated(allCombinations[index + 1]).ok
    /\ polynomialCoefficients' = Interpolated(allCombinations[index + 1])
    /\ secretFrequencyMap' = Tally(secretFrequencyMap, allCombinations[index + 1])
    /\ index' = index + 1
    /\ UNCHANGED <<allRoots, k, pc, allCombinations, outcome, polynomial, decoderVars>>

ThrowNoValidSecrets ==
    /\ pc = "forEach"
    /\ index = Len(allCombinations)
    /\ Len(secretFrequencyMap) = 0
    /\ outcome' = Conclude(secretFrequencyMap, allCombinations)
    /\ pc' = "threw"
    /\ UNCHANGED <<allRoots, k, allCombinations, index, secretFrequencyMap,
                   polynomialCoefficients, polynomial, decoderVars>>

ReturnResult ==
    /\ pc = "forEach"
    /\ index = Len(allCombinations)
    /\ Len(secretFrequencyMap) # 0
    /\ outcome' = Conclude(secretFrequencyMap, allCombinations)
    /\ pc' = "returned"
    /\ UNCHANGED <<allRoots, k, allCombinations, index, secretFrequencyMap,
                   polynomialCoefficients, polynomial, decoderVars>>

DecoderIdle ==
    /\ value = <<>>
    /\ base = <<>>
    /\ dpc = "idle"
    /\ digits = <<>>
    /\ digitIndex = 0
    /\ result = 0
    /\ thrown = ""

RecoveryStart ==
    /\ pc = "start"
    /\ allCombinations = <<>>
    /\ index = 0
    /\ secretFrequencyMap = <<>>
    /\ polynomialCoefficients = NoInterpolation
    /\ outcome = NoResult

\* Any list of at most MaxN points with x in 1..MaxN and y in 0..MaxY, in any
\* order, abscissas repeated or not, and any k from -1 to MaxN.
Points == [x : 1..MaxN, y : 0..MaxY]
PointLists == UNION {[1..n -> Points] : n \in 0..MaxN}
KValues == (-1)..MaxN

Init ==
    /\ allRoots \in PointLists
    /\ k \in KValues
    /\ polynomial = <<>>
    /\ RecoveryStart
    /\ DecoderIdle

Next ==
    \/ Generate
    \/ TallySecret
    \/ CatchError
    \/ ThrowNoValidSecrets
    \/ ReturnResult

Spec == Init /\ [][Next]_vars

----------------------------------------------------------------------------
\* The points processTestCase hands over: the shares present among the
\* indices 1..n, in increasing index order, each y a decoded (non-negative)
\* value.  Here every y is the value of a polynomial with k coefficients in
\* 0..MaxCoef, plus a corruption of 0..MaxDelta.

RECURSIVE Power(_, _)
Power(b, e) == IF e = 0 THEN 1 ELSE b * Power(b, e - 1)

RECURSIVE EvalFrom(_, _, _)
EvalFrom(coefficients, x, c) ==
    IF c \notin DOMAIN coefficients THEN 0
    ELSE coefficients[c] * Power(x, c) + EvalFrom(coefficients, x, c + 1)

\* f(x) = a0 + a1*x + ... for coefficients over 0..k-1
Eval(coefficients, x) == EvalFrom(coefficients, x, 0)

Ascending(S) ==
    CHOOSE s \in [1..Cardinality(S) -> S] :
        \A p, q \in 1..Cardinality(S) : p < q => s[p] < s[q]

PolyInit ==
    /\ \E S \in (SUBSET (1..PolyN)) \ {{}} :
       \E size \in 0..Cardinality(S) :
       \E coefficients \in [0..(size - 1) -> 0..MaxCoef] :
       \E delta \in [1..Cardinality(S) -> 0..MaxDelta] :
          /\ k = size
          /\ polynomial = coefficients
          /\ allRoots = [p \in 1..Cardinality(S) |->
                            [x |-> Ascending(S)[p],
                             y |-> Eval(coefficients, Ascending(S)[p]) + delta[p]]]
    /\ RecoveryStart
    /\ DecoderIdle

SpecPoly == PolyInit /\ [][Next]_vars

----------------------------------------------------------------------------
\* decodeFromBase

\* parseInt(base) of a string of decimal digits.
parseInt(s) == DecimalValue(s, 0)

\* A decoder that leaves the case of the letters alone.
KeepCase(ch) == ch

ToLowerCase(ch) == IF ch \in 65..90 THEN ch + 32 ELSE ch

RECURSIVE TrimEnd(_)
TrimEnd(s) ==
    IF s # <<>> /\ s[Len(s)] = 32 THEN TrimEnd(SubSeq(s, 1, Len(s) - 1)) ELSE s

HexDigit(ch) ==
    IF ch \in 48..57 THEN ch - 48
    ELSE IF ch \in 97..102 THEN ch - 87
    ELSE IF ch \in 65..70 THEN ch - 55
    ELSE -1

\* BigInt('0x' + value): white space around the literal is dropped, what
\* follows 0x must be one hex digit or more, else a SyntaxError.
BigIntOfHexLiteral(hex) ==
    LET body == TrimEnd(hex)
        place[p \in 0..Len(body)] ==
            IF p = 0 THEN 0 ELSE place[p - 1] + HexDigit(body[p]) * Power(16, Len(body) - p)
    IN  IF body = <<>> \/ \E p \in 1..Len(body) : HexDigit(body[p]) < 0
        THEN [ok |-> FALSE, n |-> 0, error |-> "SyntaxError"]
        ELSE [ok |-> TRUE, n |-> place[Len(body)], error |-> ""]

\* value.toLowerCase().split('')
LowerCaseDigits(s) == [p \in 1..Len(s) |-> ToLowerCase(s[p])]

\* The digit's value as the loop computes it, -1 where it throws "Invalid digit".
DigitValue(digit) ==
    IF digit >= 48 /\ digit <= 57 THEN digit - 48
    ELSE IF digit >= 97 /\ digit <= 122 THEN digit - 97 + 10
    ELSE -1

\* The loop body's assignment to result.
Accumulate(acc, baseNum, digitValue) == acc * baseNum + digitValue

\* The generic loop as a whole, from digit p on.
RECURSIVE DigitLoop(_, _, _, _)
DigitLoop(ds, baseNum, p, acc) ==
    IF p > Len(ds) THEN [ok |-> TRUE, n |-> acc, error |-> ""]
    ELSE IF DigitValue(ds[p]) < 0
    THEN [ok |-> FALSE, n |-> 0, error |-> "Invalid digit"]
    ELSE IF DigitValue(ds[p]) >= baseNum
    THEN [ok |-> FALSE, n |-> 0, error |-> "Digit is invalid for base"]
    ELSE DigitLoop(ds, baseNum, p + 1, Accumulate(acc, baseNum, DigitValue(ds[p])))

DecodeHex ==
    /\ dpc = "start"
    /\ parseInt(base) = 16
    /\ BigIntOfHexLiteral(value).ok
    /\ result' = BigIntOfHexLiteral(value).n
    /\ dpc' = "returned"
    /\ UNCHANGED <<value, base, digits, digitIndex, thrown, recoveryVars>>

DecodeHexThrows ==
    /\ dpc = "start"
    /\ parseInt(base) = 16
    /\ ~BigIntOfHexLiteral(value).ok
    /\ thrown' = BigIntOfHexLiteral(value).error
    /\ dpc' = "threw"
    /\ UNCHANGED <<value, base, digits, digitIndex, result, recoveryVars>>

EnterLoop ==
    /\ dpc = "start"
    /\ parseInt(base) # 16
    /\ result' = 0
    /\ digits' = LowerCaseDigits(value)
    /\ digitIndex' = 0
    /\ dpc' = "loop"
    /\ UNCHANGED <<value, base, thrown, recoveryVars>>

LoopDigit ==
    /\ dpc = "loop"
    /\ digitIndex < Len(digits)
    /\ DigitValue(digits[digitIndex + 1]) >= 0
    /\ DigitValue(digits[digitIndex + 1]) < parseInt(base)
    /\ result' = Accumulate(result, parseInt(base), DigitValue(digits[digitIndex + 1]))
    /\ digitIndex' = digitIndex + 1
    /\ UNCHANGED <<value, base, dpc, digits, thrown, recoveryVars>>

ThrowInvalidDigit ==
    /\ dpc = "loop"
    /\ digitIndex < Len(digits)
    /\ DigitValue(digits[digitIndex + 1]) < 0
    /\ thrown' = "Invalid digit"
    /\ dpc' = "threw"
    /\ UNCHANGED <<value, base, digits, digitIndex, result, recoveryVars>>

ThrowDigitTooLarge ==
    /\ dpc = "loop"
    /\ digitIndex < Len(digits)
    /\ DigitValue(digits[digitIndex + 1]) >= 0
    /\ DigitValue(digits[digitIndex + 1]) >= parseInt(base)
    /\ thrown' = "Digit is invalid for base"
    /\ dpc' = "threw"
    /\ UNCHANGED <<value, base, digits, digitIndex, result, recoveryVars>>

ReturnDecoded ==
    /\ dpc = "loop"
    /\ digitIndex = Len(digits)
    /\ dpc' = "returned"
    /\ UNCHANGED <<value, base, digits, digitIndex, result, thrown, recoveryVars>>

\* The characters of the digit strings: digits and letters of both cases at
\* the ends of their ranges and around 'f', and '-', ' ', '{', no digits.
Chars == {48, 49, 57, 65, 70, 71, 90, 97, 102, 103, 122, 45, 32, 123}
DigitStrings == UNION {[1..n -> Chars] : n \in 0..MaxLen}
Bases == 2..36

DecodeInit ==
    /\ value \in DigitStrings
    /\ base \in {BigIntToString(b) : b \in Bases}
    /\ dpc = "start"
    /\ digits = <<>>
    /\ digitIndex = 0
    /\ result = 0
    /\ thrown = ""
    /\ allRoots = <<>>
    /\ k = 0
    /\ polynomial = <<>>
    /\ pc = "idle"
    /\ allCombinations = <<>>
    /\ index = 0
    /\ secretFrequencyMap = <<>>
    /\ polynomialCoefficients = NoInterpolation
    /\ outcome = NoResult

DecodeNext ==
    \/ DecodeHex
    \/ DecodeHexThrows
    \/ EnterLoop
    \/ LoopDigit
    \/ ThrowInvalidDigit
    \/ ThrowDigitTooLarge
    \/ ReturnDecoded

SpecDecode == DecodeInit /\ [][DecodeNext]_vars

----------------------------------------------------------------------------
\* Properties

RECURSIVE Binomial(_, _)
Binomial(n, r) ==
    IF r < 0 \/ r > n THEN 0
    ELSE IF r = 0 \/ r = n THEN 1
    ELSE Binomial(n - 1, r - 1) + Binomial(n - 1, r)

RECURSIVE SumCounts(_, _)
SumCounts(map, e) == IF e > Len(map) THEN 0 ELSE map[e][2] + SumCounts(map, e + 1)

\* The sum of the tally's counts.
TotalCount(map) == SumCounts(map, 1)

Handled == pc \in {"forEach", "returned", "threw"}

DistinctX(points) ==
    \A p, q \in 1..Len(points) : p # q => points[p].x # points[q].x

\* The point lies on the polynomial the points were drawn from.
OnPolynomial(point) == point.y = Eval(polynomial, point.x)

\* The strictly increasing position tuples of length r over 1..n, and their
\* lexicographic order.
IncreasingTuples(n, r) ==
    {t \in [1..r -> 1..n] : \A a, b \in 1..r : a < b => t[a] < t[b]}

LexLess(s, t) ==
    \E p \in DOMAIN s : s[p] < t[p] /\ \A q \in DOMAIN s : q < p => s[q] = t[q]

\* C6: for 1 <= k <= n, generateCombinations returns C(n,k) combinations, and
\* the combination in place r is the elements at the position tuple of
\* lexicographic rank r among the strictly increasing k-tuples of positions:
\* every k-subset of positions once, in increasing position, in lexicographic order.
C6_CombinationsLexicographic ==
    (pc = "forEach" /\ index = 0 /\ 1 <= k /\ k <= Len(allRoots)) =>
        LET T == IncreasingTuples(Len(allRoots), k)
        IN  /\ Len(allCombinations) = Binomial(Len(allRoots), k)
            /\ Cardinality(T) = Len(allCombinations)
            /\ \A t \in T :
                  allCombinations[1 + Cardinality({u \in T : LexLess(u, t)})]
                    = [j \in 1..k |-> allRoots[t[j]]]

C6_Witness ==
    /\ pc = "forEach"
    /\ index = 0
    /\ k = 2
    /\ Len(allRoots) = 3
    /\ Len(allCombinations) = 3

\* C7: when k > |points| or k < 1, generateCombinations returns no list of
\* combinations and the recovery ends with an InsufficientPoints error.
C7_InsufficientPoints ==
    (k > Len(allRoots) \/ k < 1) =>
        /\ pc \notin {"forEach", "returned"}
        /\ pc = "threw" => outcome.message = "InsufficientPoints"

\* The try block throws on this combination: it is empty, or two of its
\* points share an abscissa.
MustFail(combination) == Len(combination) = 0 \/ ~DistinctX(combination)

\* C8: a combination with a repeated abscissa fails and adds nothing to the
\* tally, every other combination is tallied, all combinations are handled
\* before the recovery ends, and the recovery throws the no-valid-secrets
\* error exactly when every combination failed.
C8_FailedSubsetsSkipped ==
    /\ Handled =>
          TotalCount(secretFrequencyMap)
            = Cardinality({e \in 1..index : ~MustFail(allCombinations[e])})
    /\ (Handled /\ index >= 1) =>
          (polynomialCoefficients.ok <=> ~MustFail(allCombinations[index]))
    /\ pc \in {"returned", "threw"} =>
          /\ index = Len(allCombinations)
          /\ (pc = "threw") <=>
                \A e \in 1..Len(allCombinations) : MustFail(allCombinations[e])
          /\ pc = "threw" =>
                outcome.message = "No valid secrets found from any combination"

C8_Witness ==
    /\ pc = "returned"
    /\ \E e \in 1..Len(allCombinations) : ~DistinctX(allCombinations[e])
    /\ TotalCount(secretFrequencyMap) >= 2

\* C10: the tally's counts sum to the number of combinations handled so far
\* whose try block completed; the frequency returned is the largest count,
\* between 1 and totalCombinations, which counts every generated combination;
\* with distinct abscissas and 1 <= k <= n the counts sum to C(n,k), and
\* k = n gives frequency = 1 = totalCombinations.
C10_TallyAccounting ==
    /\ Handled =>
          TotalCount(secretFrequencyMap)
            = Cardinality({e \in 1..index : Interpolated(allCombinations[e]).ok})
    /\ pc = "returned" =>
          /\ \E e \in 1..Len(secretFrequencyMap) :
                secretFrequencyMap[e][2] = outcome.frequency
          /\ \A e \in 1..Len(secretFrequencyMap) :
                secretFrequencyMap[e][2] <= outcome.frequency
          /\ 1 <= outcome.frequency
          /\ outcome.frequency <= outcome.totalCombinations
          /\ outcome.totalCombinations = Len(allCombinations)
          /\ (1 <= k /\ k <= Len(allRoots)) =>
                outcome.totalCombinations = Binomial(Len(allRoots), k)
          /\ (1 <= k /\ k <= Len(allRoots) /\ DistinctX(allRoots)) =>
                TotalCount(secretFrequencyMap) = Binomial(Len(allRoots), k)
          /\ (1 <= k /\ k = Len(allRoots) /\ DistinctX(allRoots)) =>
                outcome.frequency = 1 /\ outcome.totalCombinations = 1

C10_Witness ==
    /\ pc = "returned"
    /\ outcome.frequency = 2
    /\ outcome.totalCombinations = 3
    /\ Len(secretFrequencyMap) = 2

\* What the try block gives for each combination, in enumeration order.
Interpolations ==
    [e \in 1..Len(allCombinations) |-> Interpolated(allCombinations[e])]

CompletedIn(r) == {e \in DOMAIN r : r[e].ok}

VotesIn(r, v) == Cardinality({e \in CompletedIn(r) : r[e].coefficients[0] = v})

FirstSeenIn(r, v) ==
    CHOOSE e \in CompletedIn(r) :
        /\ r[e].coefficients[0] = v
        /\ \A f \in CompletedIn(r) : r[f].coefficients[0] = v => e <= f

\* C4: the secret returned has the largest count, and among the candidates
\* with that count it is the one produced by the earliest combination.
C4_TieBreakFirstSeen ==
    pc = "returned" =>
        LET r == Interpolations
        IN  /\ \E e \in CompletedIn(r) : r[e].coefficients[0] = outcome.secret
            /\ \A e \in CompletedIn(r) :
                  /\ VotesIn(r, r[e].coefficients[0]) <= VotesIn(r, outcome.secret)
                  /\ VotesIn(r, r[e].coefficients[0]) = VotesIn(r, outcome.secret) =>
                        FirstSeenIn(r, outcome.secret)
                            <= FirstSeenIn(r, r[e].coefficients[0])

C4_Witness ==
    /\ pc = "returned"
    /\ k = 2
    /\ Len(secretFrequencyMap) = 3
    /\ secretFrequencyMap[2][2] = outcome.frequency
    /\ secretFrequencyMap[2][1] # BigIntToString(outcome.secret)

\* Two permutations that generate every permutation of a list: the exchange
\* of its first two elements, and its rotation by one.
SwapFirstTwo(s) ==
    IF Len(s) < 2 THEN s ELSE <<s[2], s[1]>> \o SubSeq(s, 3, Len(s))

Rotate(s) == IF Len(s) < 2 THEN s ELSE Append(Tail(s), Head(s))

Entries(map) == {map[e] : e \in 1..Len(map)}

\* The call on another list: its tally and what it returns or throws.
CallOn(roots, size) ==
    LET combinations == generateCombinations(roots, size)
        map == TallyAll(<<>>, combinations, 1)
    IN  [tally |-> map, outcome |-> Conclude(map, combinations)]

\* C5 as stated: the call on a permutation of the points returns the same
\* result (secret, frequency, totalCombinations), ties included.
C5_PermutationSameResult ==
    pc \in {"returned", "threw"} =>
        /\ findSecretWithMinimumRoots(SwapFirstTwo(allRoots), k) = outcome
        /\ findSecretWithMinimumRoots(Rotate(allRoots), k) = outcome

SingleMaximum ==
    Cardinality({e \in 1..Len(secretFrequencyMap) :
                    secretFrequencyMap[e][2] = outcome.frequency}) = 1

SameButSecretOnTie(other) ==
    /\ Entries(other.tally) = Entries(secretFrequencyMap)
    /\ other.outcome.kind = outcome.kind
    /\ other.outcome.frequency = outcome.frequency
    /\ other.outcome.totalCombinations = outcome.totalCombinations
    /\ (pc = "returned" /\ SingleMaximum) => other.outcome.secret = outcome.secret

\* C5 as amended: the call on a permutation of the points builds the same
\* tally (the same candidates with the same counts), ends the same way, with
\* the same frequency and totalCombinations, and with the same secret
\* whenever a single candidate has the largest count.  It is stated for the
\* two generators of the permutations, on every list of the model.
C5_PermutationSameTally ==
    pc \in {"returned", "threw"} =>
        /\ SameButSecretOnTie(CallOn(SwapFirstTwo(allRoots), k))
        /\ SameButSecretOnTie(CallOn(Rotate(allRoots), k))

C5_Witness ==
    /\ pc = "returned"
    /\ Len(allRoots) = 3
    /\ SwapFirstTwo(allRoots) # allRoots
    /\ Rotate(allRoots) # allRoots
    /\ Len(secretFrequencyMap) >= 2
    /\ SingleMaximum
    /\ secretFrequencyMap[1][1] # BigIntToString(outcome.secret)

\* C1: with distinct abscissas, when fewer than half of the combinations hold
\* a point off the polynomial P, the secret returned is P(0).
C1_CorruptionTolerance ==
    (/\ pc = "returned"
     /\ k >= 1
     /\ DistinctX(allRoots)
     /\ 2 * Cardinality({e \in 1..Len(allCombinations) :
                \E p \in 1..k : ~OnPolynomial(allCombinations[e][p])})
          < Len(allCombinations))
    => outcome.secret = polynomial[0]

\* C2: when all n points lie on one polynomial with k integer coefficients,
\* every combination gives the same constant term: frequency =
\* totalCombinations = C(n,k).
C2_Consistency ==
    (/\ pc = "returned"
     /\ 1 <= k
     /\ k <= Len(allRoots)
     /\ DistinctX(allRoots)
     /\ \A p \in 1..Len(allRoots) : OnPolynomial(allRoots[p]))
    => /\ outcome.frequency = outcome.totalCombinations
       /\ outcome.totalCombinations = Binomial(Len(allRoots), k)
       /\ Len(secretFrequencyMap) = 1

\* C3: on k >= 1 points with distinct abscissas that lie on a polynomial with
\* integer coefficients a0..a(k-1), performLagrangeInterpolation returns
\* exactly a0..a(k-1), entry i the coefficient of x^i.
C3_ExactCoefficients ==
    (/\ Handled
     /\ index >= 1
     /\ k >= 1
     /\ DistinctX(allCombinations[index])
     /\ \A p \in 1..k : OnPolynomial(allCombinations[index][p]))
    => /\ polynomialCoefficients.ok
       /\ polynomialCoefficients.coefficients = polynomial

\* The digits 0-9 then a-z, by place: the digit of value d is Alphabet[d + 1].
Alphabet ==
    <<48, 49, 50, 51, 52, 53, 54, 55, 56, 57,
      97, 98, 99, 100, 101, 102, 103, 104, 105, 106, 107, 108, 109,
      110, 111, 112, 113, 114, 115, 116, 117, 118, 119, 120, 121, 122>>

\* The value of a character as a digit, in either case; 36 when it is none.
DigitOf(ch) ==
    IF \E d \in 0..35 : Alphabet[d + 1] = ch \/ (d >= 10 /\ Alphabet[d + 1] - 32 = ch)
    THEN CHOOSE d \in 0..35 : Alphabet[d + 1] = ch \/ (d >= 10 /\ Alphabet[d + 1] - 32 = ch)
    ELSE 36

ValidDigits(s, b) == s # <<>> /\ \A p \in 1..Len(s) : DigitOf(s[p]) < b

\* sum of digit_p * b^(len - p)
RECURSIVE PositionalValue(_, _, _)
PositionalValue(s, b, p) ==
    IF p > Len(s) THEN 0
    ELSE DigitOf(s[p]) * Power(b, Len(s) - p) + PositionalValue(s, b, p + 1)

\* encode(v, b): the digits of v >= 0 in base b, lower case, no leading zero.
RECURSIVE Encode(_, _)
Encode(v, b) ==
    IF v < b THEN <<Alphabet[v + 1]>>
    ELSE Append(Encode(v \div b, b), Alphabet[(v % b) + 1])

\* The string is encode(v, b) for some v.
Encoded(s, b) ==
    /\ ValidDigits(s, b)
    /\ \A p \in 1..Len(s) : s[p] \notin 65..90
    /\ Len(s) > 1 => s[1] # 48

BaseNumber == CHOOSE b \in Bases : BigIntToString(b) = base

\* C9: for a base b in 2..36 and a non-empty string of digits valid in b, in
\* either case, decodeFromBase does not throw and returns the positional
\* value of the string; so it returns v for encode(v, b) (encode is one to
\* one, and the string encode(v, b) decodes to a value that encodes to the
\* same string); and for base 16 the shortcut returns what the digit loop would.
C9_DecodeRoundTrip ==
    (dpc \in {"returned", "threw"} /\ ValidDigits(value, BaseNumber)) =>
        /\ dpc = "returned"
        /\ result = PositionalValue(value, BaseNumber, 1)
        /\ Encoded(value, BaseNumber) => Encode(result, BaseNumber) = value
        /\ BaseNumber = 16 =>
              result = DigitLoop(LowerCaseDigits(value), 16, 1, 0).n

C9_Witness ==
    /\ dpc = "returned"
    /\ BaseNumber = 16
    /\ value = <<70, 102>>
    /\ result = 255

====
